---- MODULE Spec2Model ----
(***************************************************************************)
(* A model of FourierDataObject (src/fourier.py): the session object that  *)
(* holds a signal configuration, synthesises time-domain data and computes *)
(* a one-sided spectrum.                                                   *)
(*                                                                         *)
(* Numbers.  Python/numpy floats are modelled as exact rationals extended  *)
(* with the IEEE values inf, -inf and nan (numpy array arithmetic does not *)
(* raise on a division by zero, Python scalar arithmetic does).  Rounding  *)
(* error of binary floating point is not modelled.                         *)
(* Times are in seconds, frequencies in Hz.  sin is evaluated at the       *)
(* quarter turn at or below its phase, where it is 0, 1, 0, -1; 4/pi and   *)
(* 8/pi^2 are the rationals FourOverPi and EightOverPiSq.  The FFT is      *)
(* symbolic: an output bin records the sequence that was transformed, its  *)
(* index and its scaling.                                                  *)
(***************************************************************************)
EXTENDS Integers, Sequences, FiniteSets, TLC

\* obj: the fields of the one FourierDataObject; op: the last call made on it;
\* err: the exception that call raised ("none": it returned); ret: what it
\* returned; ops: the calls made so far; fresh: only accessors were called so far.
VARIABLES obj, op, err, ret, ops, fresh

vars == <<obj, op, err, ret, ops, fresh>>

\* ---------------------------------------------------------------- bounds
\* Calls made on one session.
MaxOps == 3

\* ------------------------------------------------------------- arithmetic
Abs(i) == IF i < 0 THEN -i ELSE i

RECURSIVE GCD(_, _)
GCD(a, b) == IF b = 0 THEN a ELSE GCD(b, a % b)

Sign(i) == IF i < 0 THEN -1 ELSE IF i = 0 THEN 0 ELSE 1

\* The rational n/d (d # 0) in lowest terms with a positive denominator.
Q(n, d) ==
    LET g == GCD(Abs(n), Abs(d))
        s == IF d < 0 THEN -1 ELSE 1
    IN [k |-> "fin", n |-> (s * n) \div g, d |-> (s * d) \div g]

R(i) == [k |-> "fin", n |-> i, d |-> 1]
NaN == [k |-> "nan", n |-> 0, d |-> 1]
Inf(s) == [k |-> "inf", n |-> s, d |-> 1]

IsFin(x) == x.k = "fin"
IsZero(x) == x.k = "fin" /\ x.n = 0
SignOf(x) == Sign(x.n)

Neg(x) == [x EXCEPT !.n = -x.n]
AbsR(x) == [x EXCEPT !.n = Abs(x.n)]

Add(x, y) ==
    IF x.k = "nan" \/ y.k = "nan" THEN NaN
    ELSE IF x.k = "inf" /\ y.k = "inf" THEN (IF x.n = y.n THEN x ELSE NaN)
    ELSE IF x.k = "inf" THEN x
    ELSE IF y.k = "inf" THEN y
    ELSE Q(x.n * y.d + y.n * x.d, x.d * y.d)

Sub(x, y) == Add(x, Neg(y))

Mul(x, y) ==
    IF x.k = "nan" \/ y.k = "nan" THEN NaN
    ELSE IF x.k = "inf" \/ y.k = "inf"
         THEN (IF SignOf(x) * SignOf(y) = 0 THEN NaN ELSE Inf(SignOf(x) * SignOf(y)))
    ELSE Q(x.n * y.n, x.d * y.d)

\* numpy's true division: x/0 is +-inf, 0/0 and inf/inf are nan.
Div(x, y) ==
    IF x.k = "nan" \/ y.k = "nan" THEN NaN
    ELSE IF x.k = "inf" /\ y.k = "inf" THEN NaN
    ELSE IF x.k = "inf" THEN Inf(IF SignOf(y) < 0 THEN -x.n ELSE x.n)
    ELSE IF y.k = "inf" THEN R(0)
    ELSE IF y.n = 0 THEN (IF x.n = 0 THEN NaN ELSE Inf(SignOf(x)))
    ELSE Q(x.n * y.d, x.d * y.n)

\* math.floor of a finite rational.
Floor(x) == x.n \div x.d

\* The fractional part of a finite rational, in [0, 1).
Frac(x) == Sub(x, R(Floor(x)))

Less(x, y) == x.n * y.d < y.n * x.d

\* Optional arguments: None is the empty tuple, a given value v is <<v>>.
None == <<>>
Some(v) == <<v>>
IsNone(a) == a = <<>>
Val(a) == a[1]

\* Elementwise maps over sequences.
MapSeq(s, F(_)) == [i \in 1..Len(s) |-> F(s[i])]
Zeros(n) == [i \in 1..n |-> R(0)]

RECURSIVE SumTo(_, _)
SumTo(s, n) == IF n = 0 THEN R(0) ELSE Add(SumTo(s, n - 1), s[n])
Sum(s) == SumTo(s, Len(s))

\* np.cumsum
CumSum(s) == [i \in 1..Len(s) |-> SumTo(s, i)]

\* ------------------------------------------------------------ the tables
noise_types == <<"white", "pink", "brown">>
signal_types == <<"sine", "square", "sawtooth", "triangle">>
window_types == <<"bartlett", "blackman", "blackmanharris4", "blackmanharris7",
                  "boxcar", "flattop", "hamming", "hanning", "parzen",
                  "triangular", "tukey">>
\* The sawtooth_types dictionary: slant name -> width given to signal.sawtooth.
sawtooth_types == [left |-> 0, right |-> 1]

InTuple(x, t) == \E i \in 1..Len(t) : t[i] = x

\* str.lower() on the names the callers pass.
Lower(s) ==
    CASE s = "Sine" -> "sine"
      [] s = "Sawtooth" -> "sawtooth"
      [] s = "Pink" -> "pink"
      [] s = "Triangular" -> "triangular"
      [] OTHER -> s

\* ------------------------------------------------------------ wave shapes
\* The phase n*f*t of harmonic n, in cycles.
Phase(n, f, t) == Mul(R(n * f), t)

\* np.sin(2*pi*x) at the quarter turn at or below x.
Sin2Pi(x) ==
    LET q == Floor(Mul(R(4), x)) % 4
    IN IF q = 1 THEN R(1) ELSE IF q = 3 THEN R(-1) ELSE R(0)

\* scipy.signal.square(2*pi*x, duty): +1 on the first duty fraction of a period.
Square(x, duty) == IF Less(Frac(x), duty) THEN R(1) ELSE R(-1)

\* scipy.signal.sawtooth(2*pi*x, width): rises from -1 to 1 on [0, width) of a
\* period and falls from 1 to -1 on the rest.
Sawtooth(x, width) ==
    IF Less(Frac(x), width)
    THEN Sub(Div(Mul(R(2), Frac(x)), width), R(1))
    ELSE Div(Sub(Add(width, R(1)), Mul(R(2), Frac(x))), Sub(R(1), width))

\* 4 / np.pi and 8 / np.pi ** 2, as rationals.
FourOverPi == Q(14, 11)
EightOverPiSq == Q(30, 37)

\* ---------------------------------------------------------------- windows
\* scipy.signal.get_window(name, n): the periodic (fftbins) window of length n.
GetWindow(name, n) ==
    CASE name = "boxcar" -> [i \in 1..n |-> R(1)]
      [] name = "triang" ->
            [i \in 1..n |->
                IF n <= 1 THEN R(1)
                ELSE LET m == n + 1
                         j == IF i <= m - i + 1 THEN i ELSE m - i + 1
                     IN IF m % 2 = 0 THEN Q(2 * j - 1, m) ELSE Q(2 * j, m + 1)]
      [] name = "bartlett" ->
            [i \in 1..n |->
                IF n <= 1 THEN R(1)
                ELSE LET a == Sub(Q(2 * (i - 1), n), R(1))
                     IN Sub(R(1), IF a.n < 0 THEN Neg(a) ELSE a)]

\* a * b of two numpy arrays, with broadcasting of a length-1 operand.
CanBroadcast(a, b) == Len(a) = Len(b) \/ Len(a) = 1 \/ Len(b) = 1
BroadcastMul(a, b) ==
    LET n == IF Len(a) = 1 THEN Len(b) ELSE Len(a)
    IN [i \in 1..n |-> Mul(IF Len(a) = 1 THEN a[1] ELSE a[i],
                           IF Len(b) = 1 THEN b[1] ELSE b[i])]

\* a += b in place: b may broadcast to a, a cannot grow.
CanAddInPlace(a, b) == Len(b) = Len(a) \/ Len(b) = 1
AddInPlace(a, b) == [i \in 1..Len(a) |-> Add(a[i], IF Len(b) = 1 THEN b[1] ELSE b[i])]

\* np.linspace(a, b, n)
Linspace(a, b, n) ==
    [i \in 1..n |-> IF n = 1 THEN a
                    ELSE Add(a, Mul(R(i - 1), Div(Sub(b, a), R(n - 1))))]

\* np.random.uniform(size = n): numpy's global generator yields a stream of
\* samples in [0, 1); rng is its position in the stream, and a draw takes the
\* next n samples.
Stream(j) == IF j % 3 = 0 THEN R(0) ELSE IF j % 3 = 1 THEN Q(1, 2) ELSE Q(1, 4)
Uniform(rng, n) == [i \in 1..n |-> Stream(rng + i - 1)]
Advance(rng, n) == (rng + n) % 3

\* ------------------------------------------------------- call outcomes
Ok(o) == [o |-> o, e |-> "none"]
Raise(o, e) == [o |-> o, e |-> e]
Then(r, F(_)) == IF r.e = "none" THEN F(r.o) ELSE r

\* ------------------------------------------------ FourierDataObject methods
\* Each method is an operator from the object (a record of its fields) to the
\* object it leaves and the exception it raised ("none": it returned).

calc_sample_period(o) ==
    IF o.sample_frequency = 0 THEN Raise(o, "ZeroDivisionError")
    ELSE Ok([o EXCEPT !.sample_period = Q(1, o.sample_frequency)])

calc_num_samples(o) ==
    Ok([o EXCEPT !.num_samples =
            Floor(Div(AbsR(Sub(o.end_time, o.start_time)), o.sample_period))])

set_time(o, start_time, stop_time) ==
    Ok([o EXCEPT !.start_time = start_time, !.end_time = stop_time])

generate_time_axis(o) ==
    IF o.num_samples < 0 THEN Raise(o, "ValueError")
    ELSE Ok([o EXCEPT !.time_axis_data =
                Linspace(o.start_time, o.end_time, o.num_samples)])

equivalent_noise_bandwidth(o) ==
    LET window == Val(o.window_data)
        sq == MapSeq(window, LAMBDA w : Mul(w, w))
    IN Ok([o EXCEPT !.enbw =
            Mul(R(Len(window)), Div(Sum(sq), Mul(Sum(window), Sum(window))))])

\* coherent_power_gain without the division by len(window).
coherent_power_gain_unnormalised(o) ==
    LET window == Val(o.window_data)
    IN Ok([o EXCEPT !.cpg = Sum(window)])

coherent_power_gain(o) ==
    LET window == Val(o.window_data)
    IN Ok([o EXCEPT !.cpg = Div(Sum(window), R(Len(window)))])

\* The body of generate_noise_data after its arguments are stored.
noise_body(o) ==
    LET n == Len(o.signal_data)
        uniform == Uniform(o.rng, n)
    IN IF o.curr_noise_type = "white"
       THEN Ok([o EXCEPT !.rng = Advance(@, n),
                         !.noise_data =
                  Some(MapSeq(uniform, LAMBDA x : Mul(x, o.max_noise)))])
       ELSE IF o.curr_noise_type = "brown"
       THEN Ok([o EXCEPT !.rng = Advance(@, n),
                         !.noise_data =
                  Some(MapSeq(CumSum(uniform),
                       LAMBDA x : Mul(Div(x, R(o.num_samples)), o.max_noise)))])
       ELSE Ok(o)

set_noise_type(o, noise_type, noise_magnitude) ==
    LET name == Lower(noise_type)
    IN IF ~InTuple(name, noise_types) THEN Ok(o)
       ELSE noise_body(
              [o EXCEPT !.max_noise = IF IsNone(noise_magnitude) THEN @
                                      ELSE R(Val(noise_magnitude)),
                        !.curr_noise_type = name])

generate_noise_data(o, noise_type, noise_magnitude) ==
    LET r1 == IF IsNone(noise_type) THEN Ok(o)
              ELSE set_noise_type(o, Val(noise_type), None)
    IN Then(r1, LAMBDA o1 :
         noise_body([o1 EXCEPT !.max_noise = IF IsNone(noise_magnitude) THEN @
                                             ELSE R(Val(noise_magnitude))]))

set_signal_type(o, signal_type, sawtooth_type) ==
    LET name == Lower(signal_type)
    IN IF ~InTuple(name, signal_types) THEN Ok(o)
       ELSE LET o1 == [o EXCEPT !.curr_sig_type = name]
            IN IF name # signal_types[3] THEN Ok(o1)
               ELSE IF sawtooth_type \notin DOMAIN sawtooth_types
               THEN Raise(o1, "KeyError")
               ELSE Ok([o1 EXCEPT !.sawtooth_type = sawtooth_types[sawtooth_type]])

\* The window sequence for the current window type and sample count.
fft_window_data(o) ==
    IF o.curr_window_type = "blackmanharris4"
    THEN GetWindow("blackmanharris", o.num_samples)
    ELSE IF o.curr_window_type = "hanning"
    THEN GetWindow("hann", o.num_samples)
    ELSE IF o.curr_window_type = "triangular"
    THEN GetWindow("triang", o.num_samples)
    ELSE GetWindow(o.curr_window_type, o.num_samples)

set_window_type(o, window_type) ==
    LET name == Lower(window_type)
    IN IF ~InTuple(name, window_types) THEN Ok(o)
       ELSE Ok([o EXCEPT !.curr_window_type = name])

enable_window(o) == Ok([o EXCEPT !.window_enable = TRUE])
disable_window(o) == Ok([o EXCEPT !.window_enable = FALSE])
enable_noise(o) == Ok([o EXCEPT !.noise_enable = TRUE])
disable_noise(o) == Ok([o EXCEPT !.noise_enable = FALSE])

set_amplitude(o, amplitude) ==
    LET divided == MapSeq(o.signal_data, LAMBDA x : Div(x, o.amplitude))
    IN Ok([o EXCEPT !.amplitude = amplitude,
                    !.signal_data = MapSeq(divided, LAMBDA x : Mul(x, amplitude))])

set_offset(o, offset) ==
    LET removed == MapSeq(o.signal_data, LAMBDA x : Sub(x, o.dc_offset))
    IN Ok([o EXCEPT !.dc_offset = offset,
                    !.signal_data = MapSeq(removed, LAMBDA x : Add(x, offset))])

\* set_frequency with the comparison >= 0 in place of > 0.
set_frequency_accepts_zero(o, frequencyVal) ==
    IF frequencyVal >= 0 THEN Ok([o EXCEPT !.signal_frequency = frequencyVal])
    ELSE Ok(o)

set_frequency(o, frequencyVal) ==
    IF frequencyVal > 0 THEN Ok([o EXCEPT !.signal_frequency = frequencyVal])
    ELSE Ok(o)

\* yAxis * amplitude + dc_offset over the time axis, for the current signal type.
waveform(o) ==
    LET shape(t) ==
            LET x == Phase(1, o.signal_frequency, t)
            IN CASE o.curr_sig_type = "sine" -> Sin2Pi(x)
                 [] o.curr_sig_type = "square" -> Square(x, o.duty_cycle)
                 [] o.curr_sig_type = "sawtooth" -> Sawtooth(x, R(o.sawtooth_type))
                 [] o.curr_sig_type = "triangle" -> Sawtooth(x, o.duty_cycle)
    IN MapSeq(o.time_axis_data,
              LAMBDA t : Add(Mul(shape(t), o.amplitude), o.dc_offset))

\* if noise_enable: generate_noise_data(); signal_data += noise_data
add_noise(o) ==
    IF ~o.noise_enable THEN Ok(o)
    ELSE Then(generate_noise_data(o, None, None), LAMBDA o1 :
           IF IsNone(o1.noise_data) THEN Raise(o1, "AttributeError")
           ELSE IF ~CanAddInPlace(o1.signal_data, Val(o1.noise_data))
           THEN Raise(o1, "ValueError")
           ELSE Ok([o1 EXCEPT !.signal_data = AddInPlace(@, Val(o1.noise_data))]))

\* calc_sample_period(); calc_num_samples(); generate_time_axis()
retime(o) ==
    Then(calc_sample_period(o), LAMBDA o1 :
    Then(calc_num_samples(o1), LAMBDA o2 : generate_time_axis(o2)))

generate_time_domain_data(o, signal_type) ==
    LET r0 == IF IsNone(signal_type) THEN Ok(o)
              ELSE set_signal_type(o, Val(signal_type), "left")
    IN Then(r0, LAMBDA o1 :
       Then(retime(o1), LAMBDA o2 :
         add_noise(IF InTuple(o2.curr_sig_type, signal_types)
                   THEN [o2 EXCEPT !.signal_data = waveform(o2)] ELSE o2)))

\* The optional arguments the two construct_* methods store first.
store_arguments(o, amplitude, frequency, with_noise, noise_magnitude) ==
    [o EXCEPT !.amplitude = IF IsNone(amplitude) THEN @ ELSE R(Val(amplitude)),
              !.signal_frequency = IF IsNone(frequency) THEN @ ELSE Val(frequency),
              !.max_noise = IF IsNone(noise_magnitude) THEN @
                            ELSE R(Val(noise_magnitude)),
              !.noise_enable = IF IsNone(with_noise) THEN @ ELSE Val(with_noise)]

\* The series over every n = 1, 2, ..., h, the even harmonics included.
RECURSIVE square_series_all_harmonics(_, _, _)
square_series_all_harmonics(f, t, h) ==
    IF h <= 0 THEN R(0)
    ELSE Add(square_series_all_harmonics(f, t, h - 1),
             Mul(FourOverPi, Mul(Q(1, h), Sin2Pi(Phase(h, f, t)))))

\* The sum over n = 1, 3, ..., 2h-1 of (4/pi) * ((1/n) * sin(n*2*pi*f*t)).
RECURSIVE square_series(_, _, _)
square_series(f, t, h) ==
    IF h <= 0 THEN R(0)
    ELSE LET n == 2 * h - 1
         IN Add(square_series(f, t, h - 1),
                Mul(FourOverPi, Mul(Q(1, n), Sin2Pi(Phase(n, f, t)))))

construct_square_wave_from_sines(o, harmonics, amplitude, frequency, with_noise, noise_magnitude) ==
    Then(retime(store_arguments(o, amplitude, frequency, with_noise, noise_magnitude)),
      LAMBDA o1 :
        add_noise([o1 EXCEPT !.signal_data =
                     MapSeq(o1.time_axis_data, LAMBDA t :
                        Add(Mul(square_series(o1.signal_frequency, t, harmonics),
                                o1.amplitude), o1.dc_offset))]))

\* The sum over n = 1, 3, ..., 2h-1 of
\* scaling_factor * (-1)**((n-1)/2) * (1/n**2) * sin(2*pi*f*t*n).
RECURSIVE triangle_series(_, _, _, _)
triangle_series(scaling_factor, f, t, h) ==
    IF h <= 0 THEN R(0)
    ELSE LET n == 2 * h - 1
             sgn == IF ((n - 1) \div 2) % 2 = 0 THEN 1 ELSE -1
         IN Add(triangle_series(scaling_factor, f, t, h - 1),
                Mul(Mul(Mul(scaling_factor, R(sgn)), Q(1, n * n)),
                    Sin2Pi(Phase(n, f, t))))

construct_triangle_wave_from_sines(o, harmonics, amplitude, frequency, with_noise, noise_magnitude) ==
    Then(retime(store_arguments(o, amplitude, frequency, with_noise, noise_magnitude)),
      LAMBDA o1 :
        add_noise([o1 EXCEPT !.signal_data =
                     MapSeq(o1.time_axis_data, LAMBDA t :
                        Add(triangle_series(Mul(EightOverPiSq, o1.amplitude),
                                            o1.signal_frequency, t, harmonics),
                            o1.dc_offset))]))

\* One bin of 20 * log10(2 * fft(x)[k] / n), times the window scaling factor
\* 1/(cpg/sqrt(enbw)) when scale is given: x is the transformed sequence, k the
\* index of the bin in the two-sided transform (0 is DC).
Bin(x, k, n, scale) == [x |-> x, k |-> k, n |-> n, scale |-> scale]

Min(a, b) == IF a < b THEN a ELSE b

\* one_sided without the np.delete of the DC bin, the bins starting at arange(0).
one_sided_keeps_dc(o, x, scale) ==
    LET one_sided_sample_limit == o.num_samples \div 2
        kept == Min(Len(x), one_sided_sample_limit)
    IN IF Len(x) = 0 THEN Raise(o, "ValueError")
       ELSE Ok([o EXCEPT
                 !.fft_bins = [i \in 1..one_sided_sample_limit |->
                                  Mul(R(i - 1), Val(o.fft_bin_size))],
                 !.fft_magnitude = [i \in 1..kept |->
                                  Bin(x, i - 1, o.num_samples, scale)]])

\* The one-sided conversion, the DC removal, the bins and the magnitude, of the
\* transform of x.
one_sided(o, x, scale) ==
    LET one_sided_sample_limit == o.num_samples \div 2
        kept == Min(Len(x), one_sided_sample_limit)
    IN IF Len(x) = 0 THEN Raise(o, "ValueError")
       ELSE IF kept = 0 THEN Raise(o, "IndexError")
       ELSE Ok([o EXCEPT
                 !.fft_bins = [i \in 1..(one_sided_sample_limit - 1) |->
                                  Mul(R(i), Val(o.fft_bin_size))],
                 !.fft_magnitude = [i \in 1..(kept - 1) |->
                                  Bin(x, i, o.num_samples, scale)]])

generate_freq_domain_data(o, is_windowed) ==
    IF o.num_samples = 0 THEN Raise(o, "ZeroDivisionError")
    ELSE
    LET o1 == [o EXCEPT !.fft_bin_size = Some(Q(o.sample_frequency, o.num_samples)),
                        !.window_enable = IF IsNone(is_windowed) THEN @
                                          ELSE Val(is_windowed)]
    IN IF o1.window_enable
       THEN Then(equivalent_noise_bandwidth(
                    [o1 EXCEPT !.window_data = Some(fft_window_data(o1))]),
              LAMBDA o2 :
            Then(coherent_power_gain(o2), LAMBDA o3 :
              IF ~CanBroadcast(Val(o3.window_data), o3.signal_data)
              THEN Raise(o3, "ValueError")
              ELSE one_sided(o3, BroadcastMul(Val(o3.window_data), o3.signal_data),
                             Some(<<o3.cpg, o3.enbw>>))))
       ELSE one_sided(o1, o1.signal_data, None)

\* ------------------------------------------------------------------ plots
\* x < y on floats: false when either side is nan.
Lt(x, y) ==
    IF x.k = "nan" \/ y.k = "nan" THEN FALSE
    ELSE IF x.k = "inf" THEN x.n < 0 /\ ~(y.k = "inf" /\ y.n < 0)
    ELSE IF y.k = "inf" THEN y.n > 0
    ELSE Less(x, y)

\* Python's max and min of a non-empty sequence: the first element is kept
\* until a later one compares greater (smaller).
RECURSIVE max_upto(_, _)
max_upto(s, n) ==
    IF n = 1 THEN s[1]
    ELSE LET m == max_upto(s, n - 1) IN IF Lt(m, s[n]) THEN s[n] ELSE m

max(s) == max_upto(s, Len(s))

RECURSIVE min_upto(_, _)
min_upto(s, n) ==
    IF n = 1 THEN s[1]
    ELSE LET m == min_upto(s, n - 1) IN IF Lt(s[n], m) THEN s[n] ELSE m

min(s) == min_upto(s, Len(s))

\* The time-domain part of a plot: the stored amplitude becomes the
\* peak-to-peak value of signal_data, then the data is drawn (matplotlib
\* refuses x and y of different lengths).  max() of no samples raises before
\* the assignment.  The figure itself is no state of the session.
plot_time_domain(o) ==
    IF Len(o.signal_data) = 0 THEN Raise(o, "ValueError")
    ELSE LET o1 == [o EXCEPT !.amplitude =
                        AbsR(Sub(max(o.signal_data), min(o.signal_data)))]
         IN IF Len(o1.time_axis_data) # Len(o1.signal_data)
            THEN Raise(o1, "ValueError")
            ELSE Ok(o1)

\* The frequency-domain part of a plot: it draws the stored spectrum and takes
\* min() and max() of the bins, which raises when there are none.
plot_fft(o) ==
    IF Len(o.fft_bins) # Len(o.fft_magnitude) \/ Len(o.fft_bins) = 0
    THEN Raise(o, "ValueError")
    ELSE Ok(o)

plot_time_and_fft(o) == Then(plot_time_domain(o), LAMBDA o1 : plot_fft(o1))

\* ---------------------------------------------------------------- getters
get_time_domain_data(o) == <<o.time_axis_data, o.signal_data>>
get_fft_domain_data(o) == <<o.fft_bins, o.fft_magnitude>>
get_freq(o) == o.signal_frequency
get_fs(o) == o.sample_frequency
get_amplitude(o) == o.amplitude
get_noise_magnitude(o) == o.max_noise
get_window_type(o) == o.curr_window_type
get_window_state(o) == o.window_enable

Getters == {"get_time_domain_data", "get_fft_domain_data", "get_freq", "get_fs",
            "get_amplitude", "get_noise_magnitude", "get_window_type",
            "get_window_state"}

get(o, name) ==
    CASE name = "get_time_domain_data" -> get_time_domain_data(o)
      [] name = "get_fft_domain_data" -> get_fft_domain_data(o)
      [] name = "get_freq" -> get_freq(o)
      [] name = "get_fs" -> get_fs(o)
      [] name = "get_amplitude" -> get_amplitude(o)
      [] name = "get_noise_magnitude" -> get_noise_magnitude(o)
      [] name = "get_window_type" -> get_window_type(o)
      [] name = "get_window_state" -> get_window_state(o)

\* ------------------------------------------------------------ construction
\* __init__ without its calls of calc_sample_period, calc_num_samples and
\* generate_time_axis: the placeholder sample count stays.
construct_without_timing(signal_frequency, sample_frequency, amplitude, duty_cycle, dc_offset) ==
    [curr_sig_type |-> signal_types[1], curr_noise_type |-> noise_types[1],
     curr_window_type |-> window_types[5], start_time |-> R(0),
     end_time |-> Q(1, 10), amplitude |-> amplitude, dc_offset |-> dc_offset,
     duty_cycle |-> duty_cycle, max_noise |-> Q(1, 10), noise_enable |-> FALSE,
     window_enable |-> FALSE, sample_frequency |-> sample_frequency,
     signal_frequency |-> signal_frequency,
     sawtooth_type |-> sawtooth_types["left"], sample_period |-> R(1),
     num_samples |-> 32768, enbw |-> R(1), cpg |-> R(0), time_axis_data |-> <<>>,
     signal_data |-> <<>>, fft_magnitude |-> <<>>, fft_bins |-> <<>>,
     fft_bin_size |-> None, noise_data |-> None, window_data |-> None, rng |-> 0]

\* __init__: the fields as assigned, then the derived timing, the time axis and
\* the all-zero signal.  noise_data, window_data and fft_bin_size are attributes
\* that do not exist until a method assigns them.  rng is no field of the
\* object: it is the position of numpy's generator, kept with the fields so
\* that the methods can advance it.
construct(signal_frequency, sample_frequency, amplitude, duty_cycle, dc_offset) ==
    LET o0 == [curr_sig_type |-> signal_types[1],
               curr_noise_type |-> noise_types[1],
               curr_window_type |-> window_types[5],
               start_time |-> R(0),
               end_time |-> Q(1, 10),
               amplitude |-> amplitude,
               dc_offset |-> dc_offset,
               duty_cycle |-> duty_cycle,
               max_noise |-> Q(1, 10),
               noise_enable |-> FALSE,
               window_enable |-> FALSE,
               sample_frequency |-> sample_frequency,
               signal_frequency |-> signal_frequency,
               sawtooth_type |-> sawtooth_types["left"],
               sample_period |-> R(1),
               num_samples |-> 32768,
               enbw |-> R(1),
               cpg |-> R(0),
               time_axis_data |-> <<>>,
               signal_data |-> <<>>,
               fft_magnitude |-> <<>>,
               fft_bins |-> <<>>,
               fft_bin_size |-> None,
               noise_data |-> None,
               window_data |-> None,
               rng |-> 0]
        r == retime(o0)
    IN [r.o EXCEPT !.signal_data = Zeros(Len(r.o.time_axis_data))]

\* ----------------------------------------------------------------- inputs
SampleFrequencies == {65}
FrequencyInputs == {-5, 0, 10}
\* <<start_time, stop_time>>
TimeInputs == {<<R(0), Q(1, 30)>>, <<R(0), Q(1, 60)>>, <<Q(1, 20), Q(1, 20)>>}
AmplitudeInputs == {0, 2}
OffsetInputs == {0, 1}
\* <<noise_type, noise_magnitude>>
NoiseInputs == {<<"Pink", None>>, <<"brown", None>>, <<"violet", Some(1)>>}
\* The arguments of generate_noise_data.
GenerateNoiseInputs == {<<None, None>>, <<Some("white"), Some(1)>>,
                        <<Some("violet"), Some(1)>>}
\* <<signal_type, sawtooth_type>>
SignalTypeInputs == {<<"square", "left">>, <<"sawtooth", "right">>,
                     <<"sawtooth", "up">>, <<"cosine", "right">>}
WaveformInputs == {None, Some("Sawtooth"), Some("triangle"), Some("cosine")}
WindowTypeInputs == {"Triangular", "kaiser"}
WindowedInputs == {None, Some(TRUE)}
\* <<harmonics, amplitude, frequency, with_noise, noise_magnitude>>
ConstructInputs == {<<1, None, None, None, None>>,
                    <<2, Some(2), Some(-5), None, None>>,
                    <<1, None, None, Some(TRUE), Some(1)>>}

\* ------------------------------------------------------------------- state
Init ==
    /\ \E fs \in SampleFrequencies :
          obj = construct(5, fs, R(1), Q(1, 2), R(0))
    /\ op = [name |-> "__init__", args |-> <<>>]
    /\ err = "none"
    /\ ret = None
    /\ ops = 0
    /\ fresh = TRUE

\* A call of method name with arguments args that ended as r.
Call(name, args, r) ==
    /\ ops < MaxOps
    /\ obj' = r.o
    /\ err' = r.e
    /\ op' = [name |-> name, args |-> args]
    /\ ret' = None
    /\ ops' = ops + 1
    /\ fresh' = FALSE

\* ----------------------------------------------------------------- actions
\* A read through an accessor.  It changes no field, so it is an action only on
\* the fresh session; elsewhere what an accessor returns is get(obj, name).
Get ==
    \E name \in Getters :
        /\ fresh
        /\ ret' = get(obj, name)
        /\ op' = [name |-> name, args |-> <<>>]
        /\ err' = "none"
        /\ UNCHANGED <<obj, ops, fresh>>

CalcSamplePeriod == Call("calc_sample_period", <<>>, calc_sample_period(obj))

CalcNumSamples == Call("calc_num_samples", <<>>, calc_num_samples(obj))

SetTime ==
    \E t \in TimeInputs : Call("set_time", t, set_time(obj, t[1], t[2]))

GenerateTimeAxis == Call("generate_time_axis", <<>>, generate_time_axis(obj))

SetNoiseType ==
    \E a \in NoiseInputs :
        Call("set_noise_type", a, set_noise_type(obj, a[1], a[2]))

SetSignalType ==
    \E a \in SignalTypeInputs :
        Call("set_signal_type", a, set_signal_type(obj, a[1], a[2]))

SetWindowType ==
    \E window_type \in WindowTypeInputs :
        Call("set_window_type", <<window_type>>, set_window_type(obj, window_type))

EnableWindow == Call("enable_window", <<>>, enable_window(obj))
DisableWindow == Call("disable_window", <<>>, disable_window(obj))
EnableNoise == Call("enable_noise", <<>>, enable_noise(obj))
DisableNoise == Call("disable_noise", <<>>, disable_noise(obj))

SetAmplitude ==
    \E amplitude \in AmplitudeInputs :
        Call("set_amplitude", <<amplitude>>, set_amplitude(obj, R(amplitude)))

SetOffset ==
    \E offset \in OffsetInputs :
        Call("set_offset", <<offset>>, set_offset(obj, R(offset)))

SetFrequency ==
    \E frequencyVal \in FrequencyInputs :
        Call("set_frequency", <<frequencyVal>>, set_frequency(obj, frequencyVal))

GenerateTimeDomainData ==
    \E signal_type \in WaveformInputs :
        Call("generate_time_domain_data", <<signal_type>>,
             generate_time_domain_data(obj, signal_type))

ConstructSquareWaveFromSines ==
    \E a \in ConstructInputs :
        Call("construct_square_wave_from_sines", a,
             construct_square_wave_from_sines(obj, a[1], a[2], a[3], a[4], a[5]))

ConstructTriangleWaveFromSines ==
    \E a \in ConstructInputs :
        Call("construct_triangle_wave_from_sines", a,
             construct_triangle_wave_from_sines(obj, a[1], a[2], a[3], a[4], a[5]))

GenerateFreqDomainData ==
    \E is_windowed \in WindowedInputs :
        Call("generate_freq_domain_data", <<is_windowed>>,
             generate_freq_domain_data(obj, is_windowed))

GenerateNoiseData ==
    \E a \in GenerateNoiseInputs :
        Call("generate_noise_data", a, generate_noise_data(obj, a[1], a[2]))

PlotTimeDomain == Call("plot_time_domain", <<>>, plot_time_domain(obj))

PlotFft == Call("plot_fft", <<>>, plot_fft(obj))

PlotTimeAndFft == Call("plot_time_and_fft", <<>>, plot_time_and_fft(obj))

Next ==
    \/ Get
    \/ CalcSamplePeriod
    \/ CalcNumSamples
    \/ SetTime
    \/ GenerateTimeAxis
    \/ SetNoiseType
    \/ SetSignalType
    \/ SetWindowType
    \/ EnableWindow
    \/ DisableWindow
    \/ EnableNoise
    \/ DisableNoise
    \/ SetAmplitude
    \/ SetOffset
    \/ SetFrequency
    \/ GenerateTimeDomainData
    \/ ConstructSquareWaveFromSines
    \/ ConstructTriangleWaveFromSines
    \/ GenerateFreqDomainData
    \/ GenerateNoiseData
    \/ PlotTimeDomain
    \/ PlotFft
    \/ PlotTimeAndFft

Spec == Init /\ [][Next]_vars

\* ------------------------------------------------------------------ claims
SynthesisCalls == {"generate_time_domain_data", "construct_square_wave_from_sines",
                   "construct_triangle_wave_from_sines"}

\* C1: a call of set_frequency with 0 or a negative value, in any state, returns
\* without an error and leaves signal_frequency and every other field as it
\* was; a call with a positive value stores that value and changes nothing else.
C1_SetFrequency ==
    [][op'.name = "set_frequency" =>
         /\ err' = "none"
         /\ IF op'.args[1] > 0
            THEN obj' = [obj EXCEPT !.signal_frequency = op'.args[1]]
            ELSE obj' = obj]_vars

\* A rejected frequency, on a session that other calls have changed before.
C1_Witness ==
    /\ op.name = "set_frequency"
    /\ op.args[1] <= 0
    /\ ops = 3
    /\ obj.signal_frequency = 10

\* C2: in every reachable state signal_data, time_axis_data and num_samples
\* agree: len(SignalData) = len(TimeAxis) = sampleCount.
C2_LengthsAgree ==
    /\ Len(obj.signal_data) = Len(obj.time_axis_data)
    /\ Len(obj.time_axis_data) = obj.num_samples

\* C3: in every reachable state num_samples is floor(|end_time - start_time| *
\* sample_frequency) of the current start_time, end_time and sample_frequency.
C3_SampleCountCurrent ==
    obj.num_samples =
        Floor(Mul(AbsR(Sub(obj.end_time, obj.start_time)), R(obj.sample_frequency)))

\* C4: generate_freq_domain_data, called when signal_data holds num_samples = N
\* >= 2 samples, returns and leaves N \div 2 - 1 bins and as many magnitudes;
\* bin i (from 0) is (i+1) * (sample_frequency / N) and magnitude i is that of
\* output i+1 of the transform: none is the DC bin.  With and without a window.
C4_OneSidedWithoutDC ==
    [][(/\ op'.name = "generate_freq_domain_data"
        /\ Len(obj.signal_data) = obj.num_samples
        /\ obj.num_samples >= 2) =>
         LET N == obj.num_samples
             bins == obj'.fft_bins
             magnitude == obj'.fft_magnitude
         IN /\ err' = "none"
            /\ Len(bins) = N \div 2 - 1
            /\ Len(magnitude) = N \div 2 - 1
            /\ \A i \in 1..Len(bins) :
                 /\ bins[i] = Mul(R(i), Q(obj.sample_frequency, N))
                 /\ ~IsZero(bins[i])
                 /\ magnitude[i].k = i]_vars

\* A windowed spectrum of two bins.
C4_Witness ==
    /\ op.name = "generate_freq_domain_data"
    /\ err = "none"
    /\ obj.window_enable
    /\ Len(obj.signal_data) = obj.num_samples
    /\ Len(obj.fft_bins) = 2
    /\ Len(obj.fft_magnitude) = 2

\* C5: generate_freq_domain_data, called when num_samples < 2, fails with
\* InvalidConfiguration and leaves fft_bin_size, fft_bins and fft_magnitude as
\* they were.
C5_FailsFastBelowTwoSamples ==
    [][(op'.name = "generate_freq_domain_data" /\ obj.num_samples < 2) =>
         /\ err' = "InvalidConfiguration"
         /\ obj'.fft_bin_size = obj.fft_bin_size
         /\ obj'.fft_bins = obj.fft_bins
         /\ obj'.fft_magnitude = obj.fft_magnitude]_vars

\* The call names a waveform, window or noise type outside the supported set.
UnsupportedRequest(call) ==
    \/ call.name = "set_signal_type" /\ ~InTuple(Lower(call.args[1]), signal_types)
    \/ call.name = "set_window_type" /\ ~InTuple(Lower(call.args[1]), window_types)
    \/ call.name = "set_noise_type" /\ ~InTuple(Lower(call.args[1]), noise_types)
    \/ /\ call.name = "generate_time_domain_data"
       /\ ~IsNone(call.args[1])
       /\ ~InTuple(Lower(Val(call.args[1])), signal_types)
    \/ /\ call.name = "generate_noise_data"
       /\ ~IsNone(call.args[1])
       /\ ~InTuple(Lower(Val(call.args[1])), noise_types)

\* C6: a call that names an unsupported waveform, window or noise type fails
\* with UnsupportedKind and changes no field: no configuration, no data.
C6_UnsupportedKindRejected ==
    [][UnsupportedRequest(op') => (err' = "UnsupportedKind" /\ obj' = obj)]_vars

\* C7: a synthesis call made with noise enabled and the noise type pink does
\* not return as if noise had been applied: it fails.
C7_PinkNeverCompletes ==
    [][(/\ op'.name \in SynthesisCalls
        /\ obj'.noise_enable
        /\ obj'.curr_noise_type = "pink") => err' # "none"]_vars

\* C8: when signal_data is what synthesis yields for the configuration
\* (amplitude * shape + dc_offset, no noise), it still is after set_offset and
\* after set_amplitude between non-zero amplitudes.
C8_RescaleAgreesWithResynthesis ==
    [][(/\ op'.name \in {"set_amplitude", "set_offset"}
        /\ obj.signal_data = waveform(obj)
        /\ ~IsZero(obj.amplitude)
        /\ ~IsZero(obj'.amplitude)) =>
         obj'.signal_data = waveform(obj')]_vars

\* The stored spectrum is the one generate_freq_domain_data computes from the
\* stored signal and configuration.
SpectrumCurrent(o) ==
    LET r == generate_freq_domain_data(o, None)
    IN /\ r.e = "none"
       /\ o.fft_bins = r.o.fft_bins
       /\ o.fft_magnitude = r.o.fft_magnitude

\* C9: in every reachable state a spectrum that has been computed is the
\* spectrum of the stored signal_data and configuration.
C9_SpectrumIsCurrent ==
    obj.fft_magnitude # <<>> => SpectrumCurrent(obj)

\* C10: on the fresh session every accessor returns without an error;
\* get_time_domain_data returns a time axis of num_samples points with
\* num_samples zeros, get_fft_domain_data a pair of empty sequences, and the
\* other accessors the values the constructor stored.
C10_FreshSessionDefined ==
    fresh =>
      /\ err = "none"
      /\ get_time_domain_data(obj) =
            <<Linspace(obj.start_time, obj.end_time, obj.num_samples),
              Zeros(obj.num_samples)>>
      /\ get_fft_domain_data(obj) = <<<<>>, <<>>>>
      /\ op.name \in Getters => ret = get(obj, op.name)
      /\ op.name = "get_time_domain_data" =>
            /\ Len(ret[1]) = obj.num_samples
            /\ ret[2] = Zeros(obj.num_samples)
      /\ op.name = "get_fft_domain_data" => ret = <<<<>>, <<>>>>
      /\ op.name = "get_window_type" => ret = "boxcar"
      /\ op.name = "get_window_state" => ret = FALSE

\* get_time_domain_data has returned on the fresh session.
C10_Witness ==
    /\ fresh
    /\ op.name = "get_time_domain_data"
    /\ Len(ret[2]) = 6

C12_SquareFromOddHarmonics ==
    [][(/\ op'.name = "construct_square_wave_from_sines"
        /\ op'.args[1] >= 1
        /\ err' = "none"
        /\ ~obj'.noise_enable) =>
         LET H == op'.args[1]
             f == obj'.signal_frequency
             axis == obj'.time_axis_data
             term(k, t) == Mul(Mul(FourOverPi, Q(1, 2 * k - 1)),
                               Sin2Pi(Mul(R((2 * k - 1) * f), t)))
             series(t) == Sum([k \in 1..H |-> term(k, t)])
         IN /\ Len(obj'.signal_data) = Len(axis)
            /\ \A i \in 1..Len(axis) :
                 /\ obj'.signal_data[i] =
                       Add(Mul(obj'.amplitude, series(axis[i])), obj'.dc_offset)
                 /\ H = 1 =>
                       obj'.signal_data[i] =
                         Add(Mul(Mul(obj'.amplitude, FourOverPi),
                                 Sin2Pi(Mul(R(f), axis[i]))),
                             obj'.dc_offset)]_vars

\* Two harmonics have been summed without noise into six samples, not all of
\* them equal to the offset.
C12_Witness ==
    /\ op.name = "construct_square_wave_from_sines"
    /\ op.args[1] = 2
    /\ err = "none"
    /\ ~obj.noise_enable
    /\ Len(obj.signal_data) = 6
    /\ \E i \in 1..6 : obj.signal_data[i] # obj.dc_offset
    /\ ~IsZero(obj.dc_offset)

\* C13: in every reachable state of a session constructed with a positive
\* signal frequency, signal_frequency is strictly positive.
C13_FrequencyPositive ==
    obj.signal_frequency > 0

PlotCalls == {"plot_time_domain", "plot_fft", "plot_time_and_fft"}

\* C14: a call of plot_time_domain, plot_fft or plot_time_and_fft leaves every
\* field of the session as it was, the stored amplitude in particular.
C14_PlotsChangeNothing ==
    [][op'.name \in PlotCalls => obj' = obj]_vars

\* C15: the sawtooth slant changes only by a successful explicit selection: a
\* generate_time_domain_data call, with or without a signal type, leaves
\* sawtooth_type as it was, and a set_signal_type call that names an unknown
\* slant changes neither curr_sig_type nor sawtooth_type.
C15_SlantPersists ==
    [][/\ op'.name = "generate_time_domain_data" =>
              obj'.sawtooth_type = obj.sawtooth_type
       /\ (/\ op'.name = "set_signal_type"
           /\ op'.args[2] \notin DOMAIN sawtooth_types) =>
              /\ obj'.curr_sig_type = obj.curr_sig_type
              /\ obj'.sawtooth_type = obj.sawtooth_type]_vars
====
